---- MODULE Spec2Model ----
(***************************************************************************)
(* A model of src/datascience-ui/history-react/interactiveCell.tsx: the    *)
(* cell view (class InteractiveCell) and the editor view (class            *)
(* NativeEditor).  Every handler is one action; `effects` holds, in order, *)
(* the calls the most recent handler made on its collaborators (the key    *)
(* event, the inner editor, the input history, the action creators, the    *)
(* state controller, the message channel).                                 *)
(***************************************************************************)
EXTENDS Integers, Sequences, FiniteSets, TLC

\* ------------------------------------------------------------------------
\* Bounds of the model
\* ------------------------------------------------------------------------
\* longest editor content, in characters
MaxLen == 3
\* most cells the store creates in one behaviour (identities 1..MaxCells)
MaxCells == 2
\* tallest cell container and tallest viewport, in layout units
MaxHeight == 2
\* furthest scroll position of the content panel
MaxScroll == 2
\* most deferred (setTimeout) callbacks pending at once
MaxTimers == 1
\* most calls of the debounced scan counted within one debounce window
MaxCalls == 2

\* ------------------------------------------------------------------------
\* Identifiers and small domains
\* ------------------------------------------------------------------------
\* Identifiers.EditCellId, the reserved identity of the perpetual input cell
EditCellId == "edit-cell"
\* Identifiers.EmptyFileName, the sentinel of a cell without a source file
EmptyFileName == "empty-file"
\* cell.file === undefined
NoFile == "undefined"
\* the line-break character the submit handler strips
NL == "\n"
Alphabet == {"a", NL}
Strings == UNION {[1..k -> Alphabet] : k \in 0..MaxLen}
CellViewIds == {EditCellId, "c1"}
CellTypes == {"code", "markdown", "messages"}
Files == {NoFile, EmptyFileName, "foo.py"}
KeyCodes == {"Escape", "Enter", "a"}

VARIABLES
    props,           \* InteractiveCell: this.props (cellVM and settings)
    inputHistory,    \* InteractiveCell: this.inputHistory
    editorContents,  \* the inner editor's text (e.editorInfo.contents)
    event,           \* the event the most recent handler received
    effects,         \* calls made by the most recent handler, in order
    lifecycle,       \* NativeEditor: constructed, mounted or unmounted
    cellVMs,         \* NativeEditor: this.props.cellVMs (owned by the store)
    nextId,          \* the store: identity of the next cell it creates
    loadTotal,       \* NativeEditor: this.props.loadTotal (0: not set)
    editorState,     \* NativeEditor: this.state, written by setState
    cellRefs,        \* NativeEditor: this.cellRefs, id -> ref.current is set
    cellContainerRefs, \* NativeEditor: this.cellContainerRefs, likewise
    contentPanelScrollRef, \* NativeEditor: contentPanelScrollRef.current is set
    scrollTop,       \* scrollTop of the content panel
    debouncePending, \* the debounce timer of debounceUpdateVisibleCells is armed
    debounceCalls,   \* calls of debounceUpdateVisibleCells in the open window
    initialVisibilityUpdate, \* NativeEditor: this.initialVisibilityUpdate
    selectedCellId,  \* state controller: the selected cell (0: none)
    focusedCellId,   \* state controller: the focused cell (0: none)
    timers,          \* pending setTimeout callbacks of selectCell
    sharedState,     \* the shared state that mapStateToProps hands over as
                     \* props, fields newCellId and newCell (0: undefined)
    focusTimers,     \* pending setTimeout callbacks of scrollDiv, in order
    osType,          \* getOSType()
    keydownListener, \* window has the keydown listener mainKeyDown
    resizeListener   \* the resize listener window has (function and capture)

cellVars == <<props, inputHistory, editorContents>>
visVars == <<editorState, cellRefs, cellContainerRefs, contentPanelScrollRef,
             scrollTop, debouncePending, debounceCalls, initialVisibilityUpdate>>
storeVars == <<cellVMs, nextId, loadTotal>>
selVars == <<selectedCellId, focusedCellId, timers>>
newVars == <<sharedState, focusTimers>>
keyVars == <<osType, keydownListener, resizeListener>>
editorVars == <<lifecycle, storeVars, visVars, selVars, newVars, keyVars>>

\* the calls of the most recent handler named op
HasCall(op) == \E i \in DOMAIN effects : effects[i].op = op
CallsOf(op) == {i \in DOMAIN effects : effects[i].op = op}

\* ------------------------------------------------------------------------
\* InteractiveCell
\* ------------------------------------------------------------------------
CellVMSpace ==
    [id : CellViewIds, cell_type : CellTypes, file : Files,
     editable : BOOLEAN, selected : BOOLEAN, focused : BOOLEAN]

PropSpace == [cellVM : CellVMSpace]

\* this.inputHistory is undefined or an InputHistory object
NoInputHistory == "undefined"
NewInputHistory == "InputHistory"

\* constructor: an InputHistory is created only for the reserved edit cell
constructor(prop) ==
    IF prop.cellVM.id = EditCellId THEN NewInputHistory ELSE NoInputHistory

isCodeCell(p) == p.cellVM.cell_type = "code"

\* props.settings of the modelled configuration
showCellInputCode == FALSE
enableGather == FALSE

\* renderNormalCell: shouldRender = allowsPlainInput || shouldRenderResults();
\* the cells of the model are not direct input and have no outputs
shouldRender(p) == showCellInputCode \/ p.cellVM.editable

\* render: a messages cell renders the banner, any other the normal cell
rendersNormalCell(p) == p.cellVM.cell_type # "messages" /\ shouldRender(p)

\* renderInput: the inner editor exists for rendered code cells only
rendersInput(p) == rendersNormalCell(p) /\ isCodeCell(p)

\* giveFocus: the wrapper first (when it is mounted), then the inner editor
\* when asked for and the cell is a code cell with a mounted editor
giveFocus(p, giveCodeFocus) ==
    (IF rendersNormalCell(p) THEN <<[op |-> "wrapperFocus"]>> ELSE <<>>)
    \o (IF giveCodeFocus /\ isCodeCell(p) /\ rendersInput(p)
        THEN <<[op |-> "codeFocus", cursorPos |-> "Current"]>> ELSE <<>>)

\* the call this.giveFocus(giveCodeFocus) followed by the calls it makes
giveFocusCall(p, giveCodeFocus) ==
    <<[op |-> "giveFocus", giveCodeFocus |-> giveCodeFocus]>>
    \o giveFocus(p, giveCodeFocus)

\* componentDidUpdate without the test of prevProps: focus on every update of
\* a selected cell
componentDidUpdate_whenSelected(prevProps, p) ==
    IF p.cellVM.selected
    THEN giveFocusCall(p, p.cellVM.focused) ELSE <<>>

\* componentDidUpdate(prevProps)
componentDidUpdate(prevProps, p) ==
    IF p.cellVM.selected /\ ~prevProps.cellVM.selected
    THEN giveFocusCall(p, p.cellVM.focused) ELSE <<>>

\* shouldComponentUpdate of a component that does not define it: always update
shouldComponentUpdate_always(p, nextProps) == TRUE

\* shouldComponentUpdate(nextProps): !fastDeepEqual(this.props, nextProps)
shouldComponentUpdate(p, nextProps) == p # nextProps

\* renderNormalToolbar with both source buttons hidden on hasNoSource
renderNormalToolbar_sameHidden(p) ==
    (IF p.cellVM.file = NoFile \/ p.cellVM.file = EmptyFileName
     THEN {} ELSE {"gotoCode", "copyCode"}) \cup {"deleteCode"}

\* renderNormalToolbar: the buttons that are not hidden
hasNoSource(p) == p.cellVM.file = NoFile \/ p.cellVM.file = EmptyFileName

renderNormalToolbar(p) ==
    (IF enableGather THEN {"gatherCode"} ELSE {})
    \cup (IF hasNoSource(p) THEN {} ELSE {"gotoCode"})
    \cup (IF ~hasNoSource(p) THEN {} ELSE {"copyCode"})
    \cup {"deleteCode"}

\* renderControls: the edit-only cell gets no toolbar
isEditOnlyCell(p) == p.cellVM.id = EditCellId

renderControls(p) == IF isEditOnlyCell(p) THEN {} ELSE renderNormalToolbar(p)

\* the toolbar buttons a cell view shows: none unless the normal cell renders
visibleControls(p) == IF rendersNormalCell(p) THEN renderControls(p) ELSE {}

\* trimEndPos with "if" in place of "while": one line break is removed
trimEndPos_once(contents, endPos) ==
    IF endPos >= 0 /\ contents[endPos + 1] = NL THEN endPos - 1 ELSE endPos

\* editCellSubmit, the loop "while (endPos >= 0 && contents[endPos] === '\n')";
\* endPos is the 0-based index of the source
RECURSIVE trimEndPos(_, _)
trimEndPos(contents, endPos) ==
    IF endPos >= 0 /\ contents[endPos + 1] = NL
    THEN trimEndPos(contents, endPos - 1)
    ELSE endPos

\* contents.slice(0, endPos + 1)
slice(contents, end) == SubSeq(contents, 1, end)

\* editCellSubmit(e): the calls it makes, and whether the editor was cleared
editCellSubmit(e, p, history) ==
    IF e.editorInfo.present /\ Len(e.editorInfo.contents) > 0
    THEN LET endPos == trimEndPos(e.editorInfo.contents, Len(e.editorInfo.contents) - 1)
             content == slice(e.editorInfo.contents, endPos + 1)
         IN  [calls |-> <<[op |-> "stopPropagation"], [op |-> "preventDefault"]>>
                        \o (IF history # NoInputHistory
                            THEN <<[op |-> "inputHistory.add", text |-> content,
                                    typed |-> e.editorInfo.isDirty]>>
                            ELSE <<>>)
                        \o <<[op |-> "editorInfo.clear"],
                             [op |-> "submitInput", text |-> content, id |-> p.cellVM.id]>>,
              cleared |-> TRUE]
    ELSE [calls |-> <<>>, cleared |-> FALSE]

\* editCellEscape(e): focus moves to the next tab stop
editCellEscape(e, hasActiveElement) ==
    IF hasActiveElement /\ e.editorInfo.present /\ ~e.editorInfo.isSuggesting
    THEN [calls |-> <<[op |-> "nextTabStop.focus"]>>, cleared |-> FALSE]
    ELSE [calls |-> <<>>, cleared |-> FALSE]

\* onEditCellKeyDown(cellId, e)
onEditCellKeyDown(e, p, history, hasActiveElement) ==
    IF e.code = "Escape" THEN editCellEscape(e, hasActiveElement)
    ELSE IF e.code = "Enter" /\ e.shiftKey THEN editCellSubmit(e, p, history)
    ELSE [calls |-> <<>>, cleared |-> FALSE]

\* onKeyDown(event) of the wrapper: forwards for the edit cell only, and the
\* event it builds carries no editorInfo
NoEditorInfo ==
    [present |-> FALSE, contents |-> <<>>, isDirty |-> FALSE, isSuggesting |-> FALSE]

onKeyDown(code, shiftKey, p, history, hasActiveElement) ==
    IF p.cellVM.id = EditCellId
    THEN onEditCellKeyDown([code |-> code, shiftKey |-> shiftKey, editorInfo |-> NoEditorInfo],
                           p, history, hasActiveElement)
    ELSE [calls |-> <<>>, cleared |-> FALSE]

\* NativeEditor after construction (field initialisers, lines 390-397)
NoId == 0
NoState == [defined |-> FALSE, cellVMs |-> <<>>]
EmptyRefs == [id \in {} |-> FALSE]

\* window.addEventListener / removeEventListener for one event type: a
\* listener is the pair of a function object and the capture flag, and only
\* the same pair removes it
NoListener == [fn |-> "none", capture |-> FALSE]
addEventListener(registered, fn, capture) ==
    IF registered = NoListener THEN [fn |-> fn, capture |-> capture] ELSE registered
removeEventListener(registered, fn, capture) ==
    IF registered = [fn |-> fn, capture |-> capture] THEN NoListener ELSE registered

\* the shared state before any cell was created: no new-cell marker
NoNewCell == [newCellId |-> NoId, newCell |-> NoId]

EditorConstructed ==
    /\ lifecycle = "constructed"
    /\ editorState = NoState
    /\ cellRefs = EmptyRefs
    /\ cellContainerRefs = EmptyRefs
    /\ contentPanelScrollRef = FALSE
    /\ scrollTop = 0
    /\ debouncePending = FALSE
    /\ debounceCalls = 0
    /\ initialVisibilityUpdate = FALSE
    /\ selectedCellId = NoId
    /\ focusedCellId = NoId
    /\ timers = {}
    /\ focusTimers = <<>>
    /\ keydownListener = FALSE
    /\ resizeListener = NoListener

\* ---- actions of the cell view ----

\* the parent re-renders the view with new props
CellReceiveProps ==
    \E p \in PropSpace :
        /\ props' = p
        /\ event' = [kind |-> "props", update |-> shouldComponentUpdate(props, p)]
        /\ effects' = IF shouldComponentUpdate(props, p)
                      THEN <<[op |-> "render"]>> \o componentDidUpdate(props, p)
                      ELSE <<>>
        /\ UNCHANGED <<inputHistory, editorContents, editorVars>>

\* the text of the inner editor changes: onCodeChange dispatches editCell
EditorContentChange ==
    \E s \in Strings :
        /\ rendersInput(props)
        /\ s # editorContents
        /\ editorContents' = s
        /\ event' = [kind |-> "change"]
        /\ effects' = <<[op |-> "editCell", id |-> props.cellVM.id]>>
        /\ UNCHANGED <<props, inputHistory, editorVars>>

\* a key goes down in the inner editor: CellInput calls keyDown with the
\* editor's info
EditorKeyDown ==
    \E code \in KeyCodes, shiftKey \in BOOLEAN, isDirty \in BOOLEAN,
       isSuggesting \in BOOLEAN, hasActiveElement \in BOOLEAN :
        LET e == [code |-> code, shiftKey |-> shiftKey,
                  editorInfo |-> [present |-> TRUE, contents |-> editorContents,
                                  isDirty |-> isDirty, isSuggesting |-> isSuggesting]]
            r == onEditCellKeyDown(e, props, inputHistory, hasActiveElement)
        IN  /\ rendersInput(props)
            /\ event' = [kind |-> "editorKeyDown", code |-> code, shiftKey |-> shiftKey,
                         contents |-> editorContents]
            /\ effects' = r.calls
            /\ editorContents' = IF r.cleared THEN <<>> ELSE editorContents
            /\ UNCHANGED <<props, inputHistory, editorVars>>

\* a key goes down on the cell's wrapper div
WrapperKeyDown ==
    \E code \in KeyCodes, shiftKey \in BOOLEAN, hasActiveElement \in BOOLEAN :
        LET r == onKeyDown(code, shiftKey, props, inputHistory, hasActiveElement)
        IN  /\ rendersNormalCell(props)
            /\ event' = [kind |-> "wrapperKeyDown", code |-> code, shiftKey |-> shiftKey]
            /\ effects' = r.calls
            /\ editorContents' = IF r.cleared THEN <<>> ELSE editorContents
            /\ UNCHANGED <<props, inputHistory, editorVars>>

CellInit ==
    /\ props \in PropSpace
    /\ inputHistory = constructor(props)
    /\ editorContents = <<>>
    /\ event = [kind |-> "constructor"]
    /\ effects = <<>>
    /\ EditorConstructed
    /\ cellVMs = <<>> /\ nextId = 1 /\ loadTotal = 0
    /\ sharedState = NoNewCell
    /\ osType = "OSX"

CellNext ==
    \/ CellReceiveProps
    \/ EditorContentChange
    \/ EditorKeyDown
    \/ WrapperKeyDown

vars == <<cellVars, event, effects, editorVars>>

CellSpec == CellInit /\ [][CellNext]_vars

\* ------------------------------------------------------------------------
\* NativeEditor: rendering and the visibility scan
\* ------------------------------------------------------------------------
CellIds == 1..MaxCells

\* props.tokenizerLoaded of the modelled configuration: the cells are rendered
tokenizerLoaded == TRUE

\* initialLoadComplete without the test of this.initialVisibilityUpdate
initialLoadComplete_noLatch(total, size, latch) == total # 0 /\ size >= total

\* renderCell, the "initial load is finally complete" test that requests the
\* automatic scan
initialLoadComplete(total, size, latch) == total # 0 /\ size >= total /\ ~latch

\* render -> renderContentPanel -> ContentPanel -> renderCell(cellVM, index) for
\* list[i], list[i+1], ...: keys are the keys of cellRefs (and of
\* cellContainerRefs), latch is initialVisibilityUpdate
RECURSIVE renderCells(_, _, _, _, _)
renderCells(list, i, keys, latch, total) ==
    IF i > Len(list) \/ ~tokenizerLoaded
    THEN [keys |-> keys, latch |-> latch, calls |-> <<>>]
    ELSE LET keys1 == keys \cup {list[i].id}
             request == initialLoadComplete(total, Cardinality(keys1), latch)
             rest == renderCells(list, i + 1, keys1, latch \/ request, total)
         IN  [keys |-> rest.keys,
              latch |-> rest.latch,
              calls |-> (IF request
                         THEN <<[op |-> "debounceUpdateVisibleCells", from |-> "renderCell",
                                 index |-> i - 1, size |-> Cardinality(keys1)]>>
                         ELSE <<>>) \o rest.calls]

IdsOf(list) == {list[i].id : i \in DOMAIN list}

\* the refs after React committed a render of list: the refs renderCell made
\* point at the mounted cells, the refs of cells no longer rendered are null
committedRefs(keys, list) ==
    [id \in keys |-> tokenizerLoaded /\ id \in IdsOf(list)]

\* render(): getContentProps hands cellVMs: this.props.cellVMs to the content
\* panel, which calls renderCell for each of them
renderCall(list) == [op |-> "render", cellVMs |-> list]

\* debounce(updateVisibleCells, 100): n more calls land in the open window and
\* are merged into its one trailing run (the count stops at MaxCalls)
debounced(calls, n) == IF calls + n > MaxCalls THEN MaxCalls ELSE calls + n

\* render() of the mounted editor with the cell list `list`, commit included
RenderAfter(calls, list) ==
    LET r == renderCells(list, 1, DOMAIN cellRefs, initialVisibilityUpdate, loadTotal)
    IN  /\ cellRefs' = committedRefs(r.keys, list)
        /\ cellContainerRefs' = committedRefs(r.keys, list)
        /\ initialVisibilityUpdate' = r.latch
        /\ debouncePending' = (debouncePending \/ r.calls # <<>>)
        /\ debounceCalls' = debounced(debounceCalls, Len(r.calls))
        /\ effects' = calls \o <<renderCall(list)>> \o r.calls

Render(list) == RenderAfter(<<>>, list)

\* offsetTop of the i-th container: the containers follow each other downwards
RECURSIVE offsetTop(_, _)
offsetTop(heights, i) ==
    IF i <= 1 THEN 0 ELSE offsetTop(heights, i - 1) + heights[i - 1]

\* scanFrom with "break" in place of "continue" for a cell above the band
RECURSIVE scanFrom_breakAbove(_, _, _, _, _, _, _, _)
scanFrom_breakAbove(list, i, makeChange, refs, containerRefs, heights, visibleTop, visibleBottom) ==
    IF i > Len(list)
    THEN [cellVMs |-> list, makeChange |-> makeChange]
    ELSE LET top == offsetTop(heights, i)
             bottom == top + heights[i]
         IN  IF list[i].useQuickEdit /\ list[i].id \in DOMAIN refs
                /\ list[i].id \in DOMAIN containerRefs /\ containerRefs[list[i].id]
             THEN IF top > visibleBottom \/ bottom < visibleTop
                  THEN [cellVMs |-> list, makeChange |-> makeChange]
                  ELSE scanFrom_breakAbove([list EXCEPT ![i].useQuickEdit = FALSE], i + 1,
                                           TRUE, refs, containerRefs, heights,
                                           visibleTop, visibleBottom)
             ELSE scanFrom_breakAbove(list, i + 1, makeChange, refs, containerRefs,
                                      heights, visibleTop, visibleBottom)

\* updateVisibleCells, the for loop from index i on (1-based here); break ends
\* the loop, continue skips the cell
RECURSIVE scanFrom(_, _, _, _, _, _, _, _)
scanFrom(list, i, makeChange, refs, containerRefs, heights, visibleTop, visibleBottom) ==
    IF i > Len(list)
    THEN [cellVMs |-> list, makeChange |-> makeChange]
    ELSE LET cellVM == list[i]
             top == offsetTop(heights, i)
             bottom == top + heights[i]
         IN  IF /\ cellVM.useQuickEdit
                /\ cellVM.id \in DOMAIN refs
                /\ cellVM.id \in DOMAIN containerRefs
                /\ containerRefs[cellVM.id]
             THEN IF top > visibleBottom
                  THEN [cellVMs |-> list, makeChange |-> makeChange]
                  ELSE IF bottom < visibleTop
                  THEN scanFrom(list, i + 1, makeChange, refs, containerRefs,
                                heights, visibleTop, visibleBottom)
                  ELSE scanFrom([list EXCEPT ![i].useQuickEdit = FALSE], i + 1, TRUE,
                                refs, containerRefs, heights, visibleTop, visibleBottom)
             ELSE scanFrom(list, i + 1, makeChange, refs, containerRefs,
                           heights, visibleTop, visibleBottom)

\* updateVisibleCells without the test of makeChange: every scan updates
updateVisibleCells_alwaysSetState(list, refs, containerRefs, scrollRef, heights, visibleTop, visibleBottom) ==
    IF scrollRef /\ DOMAIN containerRefs # {}
    THEN LET r == scanFrom(list, 1, FALSE, refs, containerRefs, heights,
                           visibleTop, visibleBottom)
         IN  [ran |-> TRUE, props |-> list,
              calls |-> <<[op |-> "setState", cellVMs |-> r.cellVMs]>>]
    ELSE [ran |-> FALSE, props |-> list, calls |-> <<>>]

\* updateVisibleCells scanning this.props.cellVMs itself instead of a copy: the
\* assignments of the loop land in the list it received
updateVisibleCells_inPlace(list, refs, containerRefs, scrollRef, heights, visibleTop, visibleBottom) ==
    IF scrollRef /\ DOMAIN containerRefs # {}
    THEN LET r == scanFrom(list, 1, FALSE, refs, containerRefs, heights,
                           visibleTop, visibleBottom)
         IN  IF r.makeChange
             THEN [ran |-> TRUE, props |-> r.cellVMs,
                   calls |-> <<[op |-> "setState", cellVMs |-> r.cellVMs]>>]
             ELSE [ran |-> TRUE, props |-> list, calls |-> <<>>]
    ELSE [ran |-> FALSE, props |-> list, calls |-> <<>>]

\* updateVisibleCells: the copy [...this.props.cellVMs] scanned, the state
\* update it issues, and this.props.cellVMs as the run leaves it (list is the
\* array it received: the loop assigns to the copy and replaces a changed
\* view-model by a new object)
updateVisibleCells(list, refs, containerRefs, scrollRef, heights, visibleTop, visibleBottom) ==
    IF scrollRef /\ DOMAIN containerRefs # {}
    THEN LET r == scanFrom(list, 1, FALSE, refs, containerRefs, heights,
                           visibleTop, visibleBottom)
         IN  IF r.makeChange
             THEN [ran |-> TRUE, props |-> list,
                   calls |-> <<[op |-> "setState", cellVMs |-> r.cellVMs]>>]
             ELSE [ran |-> TRUE, props |-> list, calls |-> <<>>]
    ELSE [ran |-> FALSE, props |-> list, calls |-> <<>>]

\* ---- actions of the editor view ----

\* first render, commit and componentDidMount
Mount ==
    /\ lifecycle = "constructed"
    /\ lifecycle' = "mounted"
    /\ Render(cellVMs)
    /\ contentPanelScrollRef' = TRUE
    /\ keydownListener' = TRUE
    /\ resizeListener' = addEventListener(resizeListener, "arrow, line 405", TRUE)
    /\ event' = [kind |-> "mount"]
    /\ UNCHANGED <<cellVars, storeVars, editorState, scrollTop, selVars, newVars, osType>>

\* the store appends a new cell and the connected editor re-renders
StoreAddCell ==
    \E q \in BOOLEAN :
        LET list == Append(cellVMs, [id |-> nextId, cell_type |-> "code",
                                     useQuickEdit |-> q])
        IN  /\ lifecycle = "mounted"
            /\ nextId <= MaxCells
            /\ cellVMs' = list
            /\ nextId' = nextId + 1
            /\ Render(list)
            /\ event' = [kind |-> "storeAddCell"]
            /\ UNCHANGED <<cellVars, lifecycle, loadTotal, editorState,
                           contentPanelScrollRef, scrollTop, selVars, newVars, keyVars>>

\* the store removes a cell and the connected editor re-renders
StoreDeleteCell ==
    \E i \in DOMAIN cellVMs :
        LET list == SubSeq(cellVMs, 1, i - 1) \o SubSeq(cellVMs, i + 1, Len(cellVMs))
        IN  /\ lifecycle = "mounted"
            /\ cellVMs' = list
            /\ Render(list)
            /\ event' = [kind |-> "storeDeleteCell"]
            /\ UNCHANGED <<cellVars, lifecycle, nextId, loadTotal, editorState,
                           contentPanelScrollRef, scrollTop, selVars, newVars, keyVars>>

\* window resize while the listener of componentDidMount is registered: it
\* calls forceUpdate, which renders a mounted editor and which React ignores
\* for an unmounted one
Resize ==
    /\ resizeListener # NoListener
    /\ event' = [kind |-> "resize"]
    /\ IF lifecycle = "mounted"
       THEN RenderAfter(<<[op |-> "forceUpdate"]>>, cellVMs)
       ELSE /\ effects' = <<[op |-> "forceUpdate"]>>
            /\ UNCHANGED <<cellRefs, cellContainerRefs, initialVisibilityUpdate,
                           debouncePending, debounceCalls>>
    /\ UNCHANGED <<cellVars, lifecycle, storeVars, editorState,
                   contentPanelScrollRef, scrollTop, selVars, newVars, keyVars>>

\* onContentScroll: the panel scrolled, the debounced scan is (re)armed
Scroll ==
    \E y \in 0..MaxScroll :
        /\ lifecycle = "mounted"
        /\ y # scrollTop
        /\ scrollTop' = y
        /\ debouncePending' = (debouncePending \/ contentPanelScrollRef)
        /\ debounceCalls' = debounced(debounceCalls, IF contentPanelScrollRef THEN 1 ELSE 0)
        /\ event' = [kind |-> "scroll"]
        /\ effects' = IF contentPanelScrollRef
                      THEN <<[op |-> "debounceUpdateVisibleCells", from |-> "onContentScroll"]>>
                      ELSE <<>>
        /\ UNCHANGED <<cellVars, lifecycle, storeVars, editorState, cellRefs,
                       cellContainerRefs, contentPanelScrollRef,
                       initialVisibilityUpdate, selVars, newVars, keyVars>>

\* the debounce interval ran out: updateVisibleCells runs with the layout the
\* browser reports at that moment; its setState makes React render the editor
\* again, and that render reads this.props.cellVMs
DebounceFire ==
    \E heights \in [DOMAIN cellVMs -> 1..MaxHeight], clientHeight \in 1..MaxHeight :
        LET visibleTop == scrollTop
            visibleBottom == visibleTop + clientHeight
            r == updateVisibleCells(cellVMs, cellRefs, cellContainerRefs,
                                    contentPanelScrollRef, heights,
                                    visibleTop, visibleBottom)
            rr == renderCells(r.props, 1, DOMAIN cellRefs, initialVisibilityUpdate,
                              loadTotal)
        IN  /\ debouncePending
            /\ event' = [kind |-> "updateVisibleCells", ran |-> r.ran,
                         calls |-> debounceCalls,
                         heights |-> heights, visibleTop |-> visibleTop,
                         visibleBottom |-> visibleBottom]
            /\ cellVMs' = r.props
            /\ IF r.calls # <<>>
               THEN /\ editorState' = [defined |-> TRUE, cellVMs |-> r.calls[1].cellVMs]
                    /\ cellRefs' = committedRefs(rr.keys, r.props)
                    /\ cellContainerRefs' = committedRefs(rr.keys, r.props)
                    /\ initialVisibilityUpdate' = rr.latch
                    /\ debouncePending' = (rr.calls # <<>>)
                    /\ debounceCalls' = debounced(0, Len(rr.calls))
                    /\ effects' = r.calls \o <<renderCall(r.props)>> \o rr.calls
               ELSE /\ debouncePending' = FALSE
                    /\ debounceCalls' = 0
                    /\ effects' = <<>>
                    /\ UNCHANGED <<editorState, cellRefs, cellContainerRefs,
                                   initialVisibilityUpdate>>
            /\ UNCHANGED <<cellVars, lifecycle, nextId, loadTotal,
                           contentPanelScrollRef, scrollTop, selVars, newVars, keyVars>>

\* the editor is unmounted: React clears the refs, componentWillUnmount removes
\* the keydown listener; a pending debounce timer is not cancelled
Unmount ==
    /\ lifecycle = "mounted"
    /\ lifecycle' = "unmounted"
    /\ cellRefs' = [id \in DOMAIN cellRefs |-> FALSE]
    /\ cellContainerRefs' = [id \in DOMAIN cellContainerRefs |-> FALSE]
    /\ contentPanelScrollRef' = FALSE
    /\ keydownListener' = FALSE
    /\ resizeListener' = removeEventListener(resizeListener, "arrow, line 410", FALSE)
    /\ event' = [kind |-> "unmount"]
    /\ effects' = <<>>
    /\ UNCHANGED <<cellVars, storeVars, editorState, scrollTop, debouncePending,
                   debounceCalls, initialVisibilityUpdate, selVars, newVars, osType>>

\* the cell view is not exercised by the specifications of the editor view
CellIdle ==
    /\ props = [cellVM |-> [id |-> EditCellId, cell_type |-> "code", file |-> EmptyFileName,
                            editable |-> TRUE, selected |-> FALSE, focused |-> FALSE]]
    /\ inputHistory = constructor(props)
    /\ editorContents = <<>>

VisInit ==
    /\ CellIdle
    /\ EditorConstructed
    /\ cellVMs = <<>>
    /\ nextId = 1
    /\ sharedState = NoNewCell
    /\ loadTotal \in 0..MaxCells
    /\ osType = "OSX"
    /\ event = [kind |-> "constructor"]
    /\ effects = <<>>

VisNext ==
    \/ Mount
    \/ StoreAddCell
    \/ StoreDeleteCell
    \/ Resize
    \/ Scroll
    \/ DebounceFire
    \/ Unmount

VisSpec == VisInit /\ [][VisNext]_vars

\* ------------------------------------------------------------------------
\* NativeEditor: cell selection
\* ------------------------------------------------------------------------
\* stateController.selectCell(cellId, focusedCellId): the selection state
\* becomes the given cell (focusedCellId undefined is NoId)
stateControllerSelectCell(cellId, focusedId) ==
    [selectedCellId |-> cellId, focusedCellId |-> focusedId]

selectCellCall(cellId, focusCode) ==
    [op |-> "stateController.selectCell", id |-> cellId,
     focused |-> IF focusCode THEN cellId ELSE NoId]

\* selectCell: props.cellVMs.map(c => c.cell).filter(not 'messages')
nonMessageIds(list) ==
    {list[i].id : i \in {j \in DOMAIN list : list[j].cell_type # "messages"}}

\* selectCell(id, focusCode, cursorPos), the part before setTimeout
selectCellNow(list, id, focusCode) ==
    IF id \in nonMessageIds(list) THEN <<selectCellCall(id, focusCode)>> ELSE <<>>

\* focusCell without the test of ref.current: any entry found is focused
focusCell_noCurrentTest(refs, cellId, focusCode) ==
    <<selectCellCall(cellId, focusCode), [op |-> "cellRefs.get", id |-> cellId]>>
    \o (IF cellId \in DOMAIN refs
        THEN <<[op |-> "giveFocus", id |-> cellId, focusCode |-> focusCode]>>
        ELSE <<>>)

\* focusCell(cellId, focusCode, cursorPos)
focusCell(refs, cellId, focusCode) ==
    <<selectCellCall(cellId, focusCode), [op |-> "cellRefs.get", id |-> cellId]>>
    \o (IF cellId \in DOMAIN refs /\ refs[cellId]
        THEN <<[op |-> "giveFocus", id |-> cellId, focusCode |-> focusCode]>>
        ELSE <<>>)

\* moveSelectionToExisting(cellId, focusCode, cursorPos): this.contentPanelRef
\* is the ref object itself, so the test always passes
moveSelectionToExisting(refs, cellId, focusCode) ==
    <<selectCellCall(cellId, focusCode)>> \o focusCell(refs, cellId, focusCode)

\* the selection state after the state controller took the calls in order
RECURSIVE selectionAfter(_, _, _)
selectionAfter(calls, i, sel) ==
    IF i > Len(calls) THEN sel
    ELSE selectionAfter(calls, i + 1,
            IF calls[i].op = "stateController.selectCell"
            THEN stateControllerSelectCell(calls[i].id, calls[i].focused)
            ELSE sel)

CurrentSelection == [selectedCellId |-> selectedCellId, focusedCellId |-> focusedCellId]

\* a cell calls props.selectCell(id, focusCode, cursorPos)
SelectCell ==
    \E id \in CellIds, focusCode \in BOOLEAN :
        LET calls == selectCellNow(cellVMs, id, focusCode)
            sel == selectionAfter(calls, 1, CurrentSelection)
            timer == [id |-> id, focusCode |-> focusCode]
        IN  /\ lifecycle = "mounted"
            /\ cellVMs # <<>>
            /\ timer \notin timers
            /\ Cardinality(timers) < MaxTimers
            /\ selectedCellId' = sel.selectedCellId
            /\ focusedCellId' = sel.focusedCellId
            /\ timers' = timers \cup {timer}
            /\ event' = [kind |-> "selectCell", id |-> id]
            /\ effects' = calls
            /\ UNCHANGED <<cellVars, lifecycle, storeVars, visVars, newVars, keyVars>>

\* the 1 ms timer of selectCell fires: moveSelectionToExisting
MoveSelectionTimer ==
    \E timer \in timers :
        LET calls == moveSelectionToExisting(cellRefs, timer.id, timer.focusCode)
            sel == selectionAfter(calls, 1, CurrentSelection)
        IN  /\ timers' = timers \ {timer}
            /\ selectedCellId' = sel.selectedCellId
            /\ focusedCellId' = sel.focusedCellId
            /\ event' = [kind |-> "moveSelectionToExisting", id |-> timer.id]
            /\ effects' = calls
            /\ UNCHANGED <<cellVars, lifecycle, storeVars, visVars, newVars, keyVars>>

\* the store appends a messages cell and the connected editor re-renders
StoreAddMessages ==
    LET list == Append(cellVMs, [id |-> nextId, cell_type |-> "messages",
                                 useQuickEdit |-> FALSE])
    IN  /\ lifecycle = "mounted"
        /\ nextId <= MaxCells
        /\ cellVMs' = list
        /\ nextId' = nextId + 1
        /\ Render(list)
        /\ event' = [kind |-> "storeAddMessages"]
        /\ UNCHANGED <<cellVars, lifecycle, loadTotal, editorState,
                       contentPanelScrollRef, scrollTop, selVars, newVars, keyVars>>

SelectInit ==
    /\ CellIdle
    /\ EditorConstructed
    /\ cellVMs = <<>>
    /\ nextId = 1
    /\ sharedState = NoNewCell
    /\ loadTotal = 0
    /\ osType = "OSX"
    /\ event = [kind |-> "constructor"]
    /\ effects = <<>>

SelectNext ==
    \/ Mount
    \/ StoreAddCell
    \/ StoreAddMessages
    \/ StoreDeleteCell
    \/ SelectCell
    \/ MoveSelectionTimer
    \/ Unmount

SelectSpec == SelectInit /\ [][SelectNext]_vars

\* ------------------------------------------------------------------------
\* NativeEditor: scroll to the new cell
\* ------------------------------------------------------------------------
\* stateController.setState(partial): the given field of the shared state
\* takes the given value, the other fields keep theirs
stateControllerSetState(state, key, value) == [state EXCEPT ![key] = value]

\* scrollDiv(_div): the calls it makes and the callback it defers
scrollDiv(state) ==
    IF state.newCellId # NoId
    THEN [calls |-> <<[op |-> "stateController.setState", key |-> "newCell",
                       value |-> NoId],
                      [op |-> "setTimeout", id |-> state.newCellId]>>,
          state |-> stateControllerSetState(state, "newCell", NoId),
          timer |-> <<state.newCellId>>]
    ELSE [calls |-> <<>>, state |-> state, timer |-> <<>>]

\* the store creates a cell at the user's request, records its identity as
\* the new cell, and the connected editor re-renders
StoreInsertCell ==
    LET list == Append(cellVMs, [id |-> nextId, cell_type |-> "code",
                                 useQuickEdit |-> FALSE])
    IN  /\ lifecycle = "mounted"
        /\ nextId <= MaxCells
        /\ cellVMs' = list
        /\ nextId' = nextId + 1
        /\ sharedState' = [sharedState EXCEPT !.newCellId = nextId]
        /\ Render(list)
        /\ event' = [kind |-> "storeInsertCell", id |-> nextId]
        /\ UNCHANGED <<cellVars, lifecycle, loadTotal, editorState,
                       contentPanelScrollRef, scrollTop, selVars, focusTimers, keyVars>>

\* the content panel calls scrollToBottom, which is scrollDiv
ScrollDiv ==
    LET r == scrollDiv(sharedState)
    IN  /\ lifecycle = "mounted"
        /\ Len(focusTimers) + Len(r.timer) <= MaxTimers
        /\ sharedState' = r.state
        /\ focusTimers' = focusTimers \o r.timer
        /\ event' = [kind |-> "scrollDiv", newCellId |-> sharedState.newCellId]
        /\ effects' = r.calls
        /\ UNCHANGED <<cellVars, lifecycle, storeVars, visVars, selVars, keyVars>>

\* the 0 ms timer of scrollDiv fires: focusCell(newCell, true, CursorPos.Current)
FocusNewCell ==
    LET id == Head(focusTimers)
        calls == focusCell(cellRefs, id, TRUE)
        sel == selectionAfter(calls, 1, CurrentSelection)
    IN  /\ focusTimers # <<>>
        /\ focusTimers' = Tail(focusTimers)
        /\ selectedCellId' = sel.selectedCellId
        /\ focusedCellId' = sel.focusedCellId
        /\ event' = [kind |-> "focusNewCell", id |-> id,
                     marker |-> sharedState.newCellId]
        /\ effects' = calls
        /\ UNCHANGED <<cellVars, lifecycle, storeVars, visVars, timers,
                       sharedState, keyVars>>

NewCellInit ==
    /\ CellIdle
    /\ EditorConstructed
    /\ cellVMs = <<>>
    /\ nextId = 1
    /\ sharedState = NoNewCell
    /\ loadTotal = 0
    /\ osType = "OSX"
    /\ event = [kind |-> "constructor"]
    /\ effects = <<>>

NewCellNext ==
    \/ Mount
    \/ StoreAddCell
    \/ StoreInsertCell
    \/ StoreDeleteCell
    \/ ScrollDiv
    \/ FocusNewCell
    \/ Unmount

NewCellSpec == NewCellInit /\ [][NewCellNext]_vars

\* ------------------------------------------------------------------------
\* NativeEditor: the reference maps under renders, deletions and timers
\* ------------------------------------------------------------------------
RefsInit ==
    /\ CellIdle
    /\ EditorConstructed
    /\ cellVMs = <<>>
    /\ nextId = 1
    /\ sharedState = NoNewCell
    /\ loadTotal = 0
    /\ osType = "OSX"
    /\ event = [kind |-> "constructor"]
    /\ effects = <<>>

RefsNext ==
    \/ Mount
    \/ StoreAddCell
    \/ StoreInsertCell
    \/ StoreDeleteCell
    \/ Resize
    \/ SelectCell
    \/ MoveSelectionTimer
    \/ ScrollDiv
    \/ FocusNewCell
    \/ Unmount

RefsSpec == RefsInit /\ [][RefsNext]_vars

\* ------------------------------------------------------------------------
\* NativeEditor: window keys and the toolbar
\* ------------------------------------------------------------------------
OSTypes == {"OSX", "Windows", "Linux"}
WindowKeys == {"s", "S", "a"}
ToolbarButtons ==
    {"restartKernel", "interruptKernel", "addCell", "runAll", "clearAllOutputs",
     "toggleVariableExplorer", "save", "export"}

\* sendCommand(command, source)
sendCommand(command, source) ==
    [op |-> "sendMessage", type |-> "NativeCommand", command |-> command,
     source |-> source]

\* mainKeyDown without the getOSType() test: the meta key saves anywhere
mainKeyDown_anyMeta(key, ctrlKey, metaKey, os) ==
    IF key = "s" /\ (ctrlKey \/ metaKey)
    THEN <<[op |-> "stateController.save"], sendCommand("Save", "keyboard")>>
    ELSE <<>>

\* mainKeyDown(event)
mainKeyDown(key, ctrlKey, metaKey, os) ==
    IF key = "s" /\ (ctrlKey \/ (metaKey /\ os = "OSX"))
    THEN <<[op |-> "stateController.save"], sendCommand("Save", "keyboard")>>
    ELSE <<>>

\* the toolbar handlers with saveFromToolbar reporting the keyboard as source
toolbarClick_saveAsKeyboard(button, list) ==
    CASE button = "restartKernel" -> <<[op |-> "stateController.restartKernel"]>>
      [] button = "interruptKernel" -> <<[op |-> "stateController.interruptKernel"]>>
      [] button = "addCell" ->
            <<[op |-> "addCell"], sendCommand("AddToEnd", "mouse")>>
      [] button = "runAll" ->
            <<[op |-> "executeAllCells", codes |-> [i \in DOMAIN list |-> list[i].id]],
              sendCommand("RunAll", "mouse")>>
      [] button = "clearAllOutputs" -> <<[op |-> "stateController.clearAllOutputs"]>>
      [] button = "toggleVariableExplorer" ->
            <<[op |-> "toggleVariableExplorer"],
              sendCommand("ToggleVariableExplorer", "mouse")>>
      [] button = "save" ->
            <<[op |-> "stateController.save"], sendCommand("Save", "keyboard")>>
      [] button = "export" -> <<[op |-> "stateController.export"]>>

\* the onClick handlers of renderToolbarPanel, and saveFromToolbar
toolbarClick(button, list) ==
    CASE button = "restartKernel" -> <<[op |-> "stateController.restartKernel"]>>
      [] button = "interruptKernel" -> <<[op |-> "stateController.interruptKernel"]>>
      [] button = "addCell" ->
            <<[op |-> "addCell"], sendCommand("AddToEnd", "mouse")>>
      [] button = "runAll" ->
            <<[op |-> "executeAllCells", codes |-> [i \in DOMAIN list |-> list[i].id]],
              sendCommand("RunAll", "mouse")>>
      [] button = "clearAllOutputs" -> <<[op |-> "stateController.clearAllOutputs"]>>
      [] button = "toggleVariableExplorer" ->
            <<[op |-> "toggleVariableExplorer"],
              sendCommand("ToggleVariableExplorer", "mouse")>>
      [] button = "save" ->
            <<[op |-> "stateController.save"], sendCommand("Save", "mouse")>>
      [] button = "export" -> <<[op |-> "stateController.export"]>>

\* a key goes down on the window while mainKeyDown is registered
WindowKeyDown ==
    \E key \in WindowKeys, ctrlKey \in BOOLEAN, metaKey \in BOOLEAN :
        /\ keydownListener
        /\ event' = [kind |-> "windowKeyDown", key |-> key, ctrlKey |-> ctrlKey,
                     metaKey |-> metaKey]
        /\ effects' = mainKeyDown(key, ctrlKey, metaKey, osType)
        /\ UNCHANGED <<cellVars, editorVars>>

\* a button of the toolbar panel is activated (save is enabled on props.dirty,
\* export on canExport(), which the store decides)
ToolbarClick ==
    \E button \in ToolbarButtons :
        /\ lifecycle = "mounted"
        /\ event' = [kind |-> "toolbarClick", button |-> button]
        /\ effects' = toolbarClick(button, cellVMs)
        /\ UNCHANGED <<cellVars, editorVars>>

KeysInit ==
    /\ CellIdle
    /\ EditorConstructed
    /\ cellVMs = <<>>
    /\ nextId = 1
    /\ sharedState = NoNewCell
    /\ loadTotal = 0
    /\ osType \in OSTypes
    /\ event = [kind |-> "constructor"]
    /\ effects = <<>>

KeysNext ==
    \/ Mount
    \/ StoreAddCell
    \/ StoreDeleteCell
    \/ WindowKeyDown
    \/ Resize
    \/ ToolbarClick
    \/ Unmount

KeysSpec == KeysInit /\ [][KeysNext]_vars

\* ------------------------------------------------------------------------
\* Properties of the visibility subsystem
\* ------------------------------------------------------------------------
\* the most recent step was a run of updateVisibleCells that scanned
ScanRan == event.kind = "updateVisibleCells" /\ event.ran

\* the container of the i-th cell as the scan measured it
TopOf(i) == offsetTop(event.heights, i)
BottomOf(i) == TopOf(i) + event.heights[i]
Intersects(i) == TopOf(i) <= event.visibleBottom /\ BottomOf(i) >= event.visibleTop
EntirelyAbove(i) == BottomOf(i) < event.visibleTop
EntirelyBelow(i) == TopOf(i) > event.visibleBottom

\* C3: one run of the visibility scan over containers laid out downwards in
\* list order: in the cell list of the state update it issues every quick-edit
\* cell whose container intersects [visibleTop, visibleBottom] has its flag
\* cleared (and an update is issued when there is such a cell), and every cell
\* entirely above or entirely below the band is unchanged in every field.
C3_ScanPromotesVisible ==
    ScanRan =>
        /\ (\E i \in DOMAIN cellVMs : cellVMs[i].useQuickEdit /\ Intersects(i))
              => HasCall("setState")
        /\ \A k \in CallsOf("setState") :
              /\ Len(effects[k].cellVMs) = Len(cellVMs)
              /\ \A i \in DOMAIN cellVMs :
                    /\ cellVMs[i].useQuickEdit /\ Intersects(i)
                          => effects[k].cellVMs[i] = [cellVMs[i] EXCEPT !.useQuickEdit = FALSE]
                    /\ EntirelyAbove(i) \/ EntirelyBelow(i)
                          => effects[k].cellVMs[i] = cellVMs[i]

C3_Witness ==
    /\ ScanRan
    /\ Len(cellVMs) = 2
    /\ cellVMs[1].useQuickEdit /\ cellVMs[2].useQuickEdit
    /\ EntirelyAbove(1) /\ Intersects(2)
    /\ \E k \in CallsOf("setState") :
          /\ effects[k].cellVMs[1].useQuickEdit
          /\ ~effects[k].cellVMs[2].useQuickEdit

\* the quick-edit flags the editor view holds after its state updates
ClearedIn(st, id) ==
    \E i \in DOMAIN st.cellVMs : st.cellVMs[i].id = id /\ ~st.cellVMs[i].useQuickEdit
SetIn(st, id) ==
    \E i \in DOMAIN st.cellVMs : st.cellVMs[i].id = id /\ st.cellVMs[i].useQuickEdit

\* C9: no step of the editor view changes a cell's quick-edit flag from cleared
\* back to set: a flag the view's cell list holds as cleared is never set in
\* the list after a later scroll, scan or render.
C9_NoReverseTransition ==
    [][\A id \in CellIds : ClearedIn(editorState, id) => ~SetIn(editorState', id)]_vars

\* the automatic requests of the scan among the calls in effs
AutoRequests(effs) ==
    {i \in DOMAIN effs : effs[i].op = "debounceUpdateVisibleCells"
                         /\ effs[i].from = "renderCell"}

C4_AbsentCellNotSelected ==
    [][(selectedCellId' # selectedCellId \/ focusedCellId' # focusedCellId)
          => selectedCellId' \in nonMessageIds(cellVMs')]_vars

\* the NativeCommand notifications among the calls of the most recent handler
Commands == {i \in CallsOf("sendMessage") : effects[i].type = "NativeCommand"}

\* exactly one save action and exactly one Save command with source 'keyboard'
SavedByKeyboard ==
    /\ Cardinality(CallsOf("stateController.save")) = 1
    /\ Cardinality(Commands) = 1
    /\ \A i \in Commands : effects[i].command = "Save" /\ effects[i].source = "keyboard"

SavedNothing == CallsOf("stateController.save") = {} /\ Commands = {}

\* C6: a key-down of 's' with ctrl held (any platform), or with meta held on the
\* Apple platform, dispatches exactly one save action and exactly one Save
\* command with source 'keyboard'; 's' with only meta held on another platform,
\* and every key other than 's', dispatches neither.
C6_SaveShortcut ==
    event.kind = "windowKeyDown" =>
        /\ event.key = "s" /\ event.ctrlKey => SavedByKeyboard
        /\ event.key = "s" /\ event.metaKey /\ osType = "OSX" => SavedByKeyboard
        /\ event.key = "s" /\ event.metaKey /\ ~event.ctrlKey /\ osType # "OSX"
              => SavedNothing
        /\ event.key # "s" => SavedNothing

C6_Witness ==
    /\ event.kind = "windowKeyDown"
    /\ event.key = "s" /\ event.metaKey /\ ~event.ctrlKey
    /\ osType = "OSX"
    /\ SavedByKeyboard

\* the store action and the command identifier of a toolbar button
StoreActionOf(button) ==
    CASE button = "addCell" -> "addCell"
      [] button = "runAll" -> "executeAllCells"
      [] button = "toggleVariableExplorer" -> "toggleVariableExplorer"
      [] button = "restartKernel" -> "stateController.restartKernel"
      [] button = "interruptKernel" -> "stateController.interruptKernel"
      [] button = "clearAllOutputs" -> "stateController.clearAllOutputs"
      [] button = "save" -> "stateController.save"
      [] button = "export" -> "stateController.export"

CommandButtons == {"addCell", "runAll", "toggleVariableExplorer", "save"}

CommandOf(button) ==
    CASE button = "addCell" -> "AddToEnd"
      [] button = "runAll" -> "RunAll"
      [] button = "toggleVariableExplorer" -> "ToggleVariableExplorer"
      [] button = "save" -> "Save"

OneStoreAction == Cardinality(CallsOf(StoreActionOf(event.button))) = 1

OneMouseCommand ==
    /\ Cardinality(Commands) = 1
    /\ \A i \in Commands :
          /\ effects[i].source = "mouse"
          /\ event.button \in CommandButtons => effects[i].command = CommandOf(event.button)

\* C7 as stated: every toolbar button, when activated, performs its store
\* action and emits exactly one command notification with source 'mouse'.
C7_EveryButtonCommands ==
    event.kind = "toolbarClick" => OneStoreAction /\ OneMouseCommand

\* C7 as amended: add cell, run all, toggle variable panel and save perform
\* their store action and emit exactly one command notification with the
\* matching identifier and source 'mouse'; restart kernel, interrupt kernel,
\* clear all outputs and export perform their store action and emit none.
C7_FourButtonsCommand ==
    event.kind = "toolbarClick" =>
        /\ OneStoreAction
        /\ IF event.button \in CommandButtons THEN OneMouseCommand ELSE Commands = {}

C7_Witness ==
    /\ event.kind = "toolbarClick"
    /\ event.button = "save"
    /\ OneStoreAction
    /\ \E i \in Commands : effects[i].command = "Save" /\ effects[i].source = "mouse"

\* ------------------------------------------------------------------------
\* Properties of the cell view
\* ------------------------------------------------------------------------

\* t is s without its trailing line breaks
IsStripped(t, s) ==
    \E k \in 0..Len(s) :
        /\ t = SubSeq(s, 1, k)
        /\ k > 0 => s[k] # NL
        /\ \A j \in (k + 1)..Len(s) : s[j] = NL

\* the most recent handler ran for Shift+Enter pressed in the inner editor
IsSubmitKey ==
    /\ event.kind = "editorKeyDown"
    /\ event.code = "Enter"
    /\ event.shiftKey

\* the submit of content s happened: one submitInput with the stripped text and
\* this cell's identity, after the editor was cleared and (when a history is
\* held) after the stripped text was added to the history
SubmitDone(s) ==
    /\ Cardinality(CallsOf("submitInput")) = 1
    /\ \A i \in CallsOf("submitInput") :
        /\ IsStripped(effects[i].text, s)
        /\ effects[i].id = props.cellVM.id
        /\ \E j \in CallsOf("editorInfo.clear") : j < i
        /\ inputHistory # NoInputHistory =>
              \E j \in CallsOf("inputHistory.add") :
                  j < i /\ IsStripped(effects[j].text, s)
    /\ \A j \in CallsOf("inputHistory.add") : IsStripped(effects[j].text, s)
    /\ editorContents = <<>>

\* C1 as stated: Shift+Enter in the editor submits every content s, the empty
\* one included: history entry and submitInput text are s without its trailing
\* line breaks, the editor is cleared, both before the dispatch.
C1_SubmitEveryContent == IsSubmitKey => SubmitDone(event.contents)

\* C1 as amended: Shift+Enter in the editor submits every non-empty content s
\* (history entry and submitInput text are s without its trailing line breaks,
\* submitInput carries this cell's identity, history add and editor clear come
\* before the dispatch); with empty content the handler makes no call at all.
C1_SubmitNonEmptyContent ==
    IsSubmitKey =>
        IF Len(event.contents) > 0 THEN SubmitDone(event.contents) ELSE effects = <<>>

C1_Witness ==
    /\ IsSubmitKey
    /\ event.contents = <<"a", NL, NL>>
    /\ inputHistory # NoInputHistory
    /\ \E i \in CallsOf("submitInput") : effects[i].text = <<"a">>
    /\ \E i \in CallsOf("inputHistory.add") : effects[i].text = <<"a">>
    /\ editorContents = <<>>

\* C2: whenever Shift+Enter is pressed in the editor, for every content, the
\* empty one included, the key event's propagation is stopped and its default
\* action is prevented.
C2_SubmitKeyStopped ==
    IsSubmitKey => HasCall("stopPropagation") /\ HasCall("preventDefault")

\* the cell has a source file: file is set and is not the empty-file sentinel
HasSourceFile == props.cellVM.file # NoFile /\ props.cellVM.file # EmptyFileName

SourceControlsExclusive ==
    /\ "gotoCode" \in visibleControls(props) <=> HasSourceFile
    /\ "copyCode" \in visibleControls(props) <=> "gotoCode" \notin visibleControls(props)

\* C5 as stated: for every rendered non-message cell, "go to source" is visible
\* iff the cell has a non-empty source file, and "copy to source" is visible iff
\* "go to source" is not.
C5_SourceControls == rendersNormalCell(props) => SourceControlsExclusive

\* C5 as amended: the same for every rendered non-message cell other than the
\* reserved edit cell; the reserved edit cell shows neither control.
C5_SourceControlsOrdinary ==
    rendersNormalCell(props) =>
        IF props.cellVM.id # EditCellId
        THEN SourceControlsExclusive
        ELSE "gotoCode" \notin visibleControls(props)
             /\ "copyCode" \notin visibleControls(props)

C5_Witness ==
    /\ event.kind = "props"
    /\ HasCall("render")
    /\ rendersNormalCell(props)
    /\ props.cellVM.id # EditCellId
    /\ props.cellVM.file = "foo.py"
    /\ "gotoCode" \in visibleControls(props)
    /\ "copyCode" \notin visibleControls(props)

\* C8: in every state the view holds an InputHistory iff the cell it displays
\* has the reserved edit-cell identity, and a view that displays an ordinary
\* cell adds nothing to a history on submit.
C8_HistoryIffEditCell ==
    /\ inputHistory # NoInputHistory <=> props.cellVM.id = EditCellId
    /\ props.cellVM.id # EditCellId => ~HasCall("inputHistory.add")

\* ------------------------------------------------------------------------
\* Properties of the debounced scan and of the rendered cell list
\* ------------------------------------------------------------------------
\* the cells the scan of the most recent step found in the band
Promotions == {i \in DOMAIN cellVMs : cellVMs[i].useQuickEdit /\ Intersects(i)}

\* the state update k carries the scanned list with every promotion in it
CoversPromotions(k) ==
    /\ Len(effects[k].cellVMs) = Len(cellVMs)
    /\ \A i \in DOMAIN cellVMs :
          effects[k].cellVMs[i] =
              IF i \in Promotions THEN [cellVMs[i] EXCEPT !.useQuickEdit = FALSE]
              ELSE cellVMs[i]

\* C11 as stated: the run of the debounced scan that ends a debounce cycle
\* scans and issues exactly one state update, which covers all promotions
\* found.
C11_OneUpdatePerCycle ==
    event.kind = "updateVisibleCells" =>
        /\ event.calls >= 1
        /\ event.ran
        /\ Cardinality(CallsOf("setState")) = 1
        /\ \A k \in CallsOf("setState") : CoversPromotions(k)

\* C11 as amended: the calls of a debounce cycle are merged into one run of
\* updateVisibleCells, made after the last of them with the scroll position of
\* that moment; the run scans when the view is still mounted and a cell has
\* been rendered, and issues exactly one state update, covering all promotions
\* found, when it found a promotion and none when it found none (or did not
\* scan); a scroll event itself issues no state update.
C11_OneScanPerCycle ==
    /\ event.kind = "scroll" =>
          /\ lifecycle = "mounted" => debouncePending /\ debounceCalls >= 1
          /\ ~HasCall("setState")
    /\ debouncePending <=> debounceCalls >= 1
    /\ event.kind = "updateVisibleCells" =>
          /\ event.calls >= 1
          /\ ~debouncePending
          /\ event.visibleTop = scrollTop
          /\ event.ran <=> (lifecycle = "mounted" /\ DOMAIN cellContainerRefs # {})
          /\ Cardinality(CallsOf("setState")) =
                 IF event.ran /\ Promotions # {} THEN 1 ELSE 0
          /\ \A k \in CallsOf("setState") : CoversPromotions(k)

C11_Witness ==
    /\ event.kind = "updateVisibleCells"
    /\ event.calls >= 2
    /\ loadTotal = 0
    /\ event.ran
    /\ Promotions = {1, 2}
    /\ Cardinality(CallsOf("setState")) = 1
    /\ \A k \in CallsOf("setState") :
          ~effects[k].cellVMs[1].useQuickEdit /\ ~effects[k].cellVMs[2].useQuickEdit

\* C15: when a scan has promoted quick-edit cells, the render that its state
\* update brings about renders each promoted cell from a view-model whose
\* quick-edit flag is cleared.
C15_PromotionRendered ==
    ScanRan =>
        \A k \in CallsOf("setState"), r \in CallsOf("render") :
            r > k => \A i \in Promotions : ~effects[r].cellVMs[i].useQuickEdit

\* ------------------------------------------------------------------------
\* Properties of the store's cell list
\* ------------------------------------------------------------------------
\* the steps in which the store applies a dispatched action to the cell list
StoreKinds == {"storeAddCell", "storeInsertCell", "storeAddMessages", "storeDeleteCell"}

\* C17: no operation of the editor view (mount, render, scroll, visibility
\* scan, unmount) changes the store's cell list or a view-model in it: the
\* list changes only in the steps of the store, and the scan hands its
\* promotions over in a copy while the list it received stays as it was.
C17_SingleWriter ==
    [][event'.kind \notin StoreKinds => cellVMs' = cellVMs]_vars

C17_Witness ==
    /\ ScanRan
    /\ \E k \in CallsOf("setState"), i \in DOMAIN cellVMs :
          /\ cellVMs[i].useQuickEdit
          /\ ~effects[k].cellVMs[i].useQuickEdit
          /\ effects[k].cellVMs # cellVMs

\* ------------------------------------------------------------------------
\* Properties of the window listeners
\* ------------------------------------------------------------------------
\* C18: once the editor view is unmounted neither its keydown listener nor
\* its resize listener is registered on the window, and no key or resize
\* event is handled for it any more (no save, no forceUpdate).
C18_ListenersRemoved ==
    lifecycle = "unmounted" =>
        /\ ~keydownListener
        /\ resizeListener = NoListener
        /\ event.kind \notin {"windowKeyDown", "resize"}

\* ------------------------------------------------------------------------
\* Properties of the reference maps
\* ------------------------------------------------------------------------
\* the cells the editor currently renders
RenderedIds == IF lifecycle = "mounted" /\ tokenizerLoaded THEN IdsOf(cellVMs) ELSE {}

\* the identities the most recent handler looked up in cellRefs
LookedUp == {effects[i].id : i \in CallsOf("cellRefs.get")}

\* C16 as stated: under renders, cell additions, cell deletions and deferred
\* focus callbacks every lookup in the reference maps is made with an identity
\* that is in the current rendered cell set.
C16_LookupsOfRenderedCells == LookedUp \subseteq RenderedIds

\* C16 as amended: focusCell may look up an identity that is not rendered, and
\* then the entry is missing or its reference is null and no cell is given
\* focus: every entry of a cell that left the rendered set holds a null
\* reference, and focus is given only after a lookup and to rendered cells
\* only.
C16_StaleRefsNeverFocused ==
    /\ \A id \in DOMAIN cellRefs : cellRefs[id] <=> id \in RenderedIds
    /\ \A id \in DOMAIN cellContainerRefs : cellContainerRefs[id] <=> id \in RenderedIds
    /\ \A j \in CallsOf("giveFocus") :
          /\ effects[j].id \in RenderedIds
          /\ \E i \in CallsOf("cellRefs.get") : i < j /\ effects[i].id = effects[j].id

C16_Witness ==
    /\ event.kind \in {"moveSelectionToExisting", "focusNewCell"}
    /\ lifecycle = "mounted"
    /\ event.id \in DOMAIN cellRefs
    /\ event.id \notin RenderedIds
    /\ event.id \in LookedUp
    /\ ~HasCall("giveFocus")

\* ------------------------------------------------------------------------
\* Properties of focus routing and update gating of the cell view
\* ------------------------------------------------------------------------
FocusCalls(effs) ==
    {i \in DOMAIN effs : effs[i].op \in {"giveFocus", "wrapperFocus", "codeFocus"}}
OpCalls(effs, op) == {i \in DOMAIN effs : effs[i].op = op}

\* giveFocus was invoked exactly once in effs, with the focused flag of p
GaveFocusOnce(effs, p) ==
    /\ Cardinality(OpCalls(effs, "giveFocus")) = 1
    /\ \A i \in OpCalls(effs, "giveFocus") : effs[i].giveCodeFocus = p.cellVM.focused

\* the container is focused once, before anything else giveFocus focuses
ContainerFirst(effs) ==
    /\ Cardinality(OpCalls(effs, "wrapperFocus")) = 1
    /\ \A i \in OpCalls(effs, "wrapperFocus"), j \in OpCalls(effs, "codeFocus") : i < j

\* the inner editor is focused (once, at the current cursor position) iff wanted
EditorFocusedIff(effs, wanted) ==
    /\ Cardinality(OpCalls(effs, "codeFocus")) = (IF wanted THEN 1 ELSE 0)
    /\ \A j \in OpCalls(effs, "codeFocus") : effs[j].cursorPos = "Current"

\* C12 as stated: on an update where selected goes from false to true giveFocus
\* is invoked exactly once with the focused flag, it focuses the container
\* first and then the inner editor iff focus was requested and the cell is a
\* code cell; an update without that transition makes no focus call.
C12_FocusRouting ==
    [][event'.kind = "props" =>
          IF props'.cellVM.selected /\ ~props.cellVM.selected
          THEN /\ GaveFocusOnce(effects', props')
               /\ ContainerFirst(effects')
               /\ EditorFocusedIff(effects', props'.cellVM.focused /\ isCodeCell(props'))
          ELSE FocusCalls(effects') = {}]_vars

\* C12 as amended: the same for a cell whose wrapper is mounted (it renders a
\* normal cell); a cell that renders nothing or the messages banner gets the
\* one giveFocus invocation, and that invocation focuses nothing.
C12_FocusRoutingMounted ==
    [][event'.kind = "props" =>
          IF props'.cellVM.selected /\ ~props.cellVM.selected
          THEN /\ GaveFocusOnce(effects', props')
               /\ IF rendersNormalCell(props')
                  THEN /\ ContainerFirst(effects')
                       /\ EditorFocusedIff(effects',
                              props'.cellVM.focused /\ isCodeCell(props'))
                  ELSE /\ OpCalls(effects', "wrapperFocus") = {}
                       /\ OpCalls(effects', "codeFocus") = {}
          ELSE FocusCalls(effects') = {}]_vars

C12_Witness ==
    /\ event.kind = "props"
    /\ props.cellVM.selected /\ props.cellVM.focused
    /\ isCodeCell(props)
    /\ \E i, j, k \in DOMAIN effects :
          /\ i < j /\ j < k
          /\ effects[i] = [op |-> "giveFocus", giveCodeFocus |-> TRUE]
          /\ effects[j].op = "wrapperFocus"
          /\ effects[k].op = "codeFocus"

\* C14: on an update of a cell view from props P1 to props P2 the render body
\* is invoked (once) iff P1 and P2 are not deeply equal; an update with deeply
\* equal props invokes neither render nor anything after it.
C14_UpdateGating ==
    [][event'.kind = "props" =>
          /\ Cardinality(OpCalls(effects', "render")) = (IF props' # props THEN 1 ELSE 0)
          /\ props' = props => effects' = <<>>]_vars

C14_Witness ==
    /\ event.kind = "props"
    /\ ~event.update
    /\ props.cellVM.selected /\ props.cellVM.id = "c1"
    /\ ~HasCall("render")

\* ------------------------------------------------------------------------
\* Properties of the scroll to the new cell
\* ------------------------------------------------------------------------
\* the most recent step was a run of scrollDiv that found the new-cell marker
ScrollDivFound == event.kind = "scrollDiv" /\ event.newCellId # NoId

\* C13: a run of the scroll callback that finds the new-cell marker clears it
\* and defers the focus, so that a later run without a further created cell
\* finds no marker and focuses nothing; when the deferred focus runs the marker
\* no longer names the cell, and the cell (when mounted) is given focus with
\* its inner editor active.
C13_MarkerClearedFocusOnce ==
    /\ ScrollDivFound =>
          /\ sharedState.newCellId = NoId
          /\ focusTimers # <<>> /\ focusTimers[Len(focusTimers)] = event.newCellId
    /\ event.kind = "scrollDiv" /\ event.newCellId = NoId => effects = <<>>
    /\ event.kind = "focusNewCell" =>
          /\ event.marker # event.id
          /\ (event.id \in DOMAIN cellRefs /\ cellRefs[event.id]) =>
                \E i \in CallsOf("giveFocus") :
                    effects[i].id = event.id /\ effects[i].focusCode

====
